---- MODULE Spec2Model ----
(***************************************************************************)
(* Connect Four: the Board (src/Connect4Board.py) and the move-selection   *)
(* engine (src/Connect4Solver.py) as a state machine.                      *)
(*                                                                         *)
(* The state is a small heap of Python objects: the Board instances bound  *)
(* to the names in BoardIds, and the list objects their available_moves    *)
(* attributes refer to.  One of those list objects is the default value of *)
(* the constructor's available_moves parameter, which Python creates once  *)
(* and hands to every Board() built without that argument.                 *)
(***************************************************************************)
EXTENDS Integers, Sequences, FiniteSets, TLC

\* ------------------------------------------------------------------ bounds
\* Calls made after the opening position has been set up.
MaxCalls == 3

\* Moves of the game played on from the opening before the Solver's
\* operations are applied to the position.
MaxMoves == 1

\* ------------------------------------------------------- program constants
ROWS == 6
COLUMNS == 7

EMPTY == "EMPTY"
RED == "RED"
YELLOW == "YELLOW"
Colour == {EMPTY, RED, YELLOW}
Players == {RED, YELLOW}

Rows == 0..(ROWS - 1)
Cols == 0..(COLUMNS - 1)

\* Python sequence indexing: a negative index counts from the end.
PyIndex(i, n) == IF i < 0 THEN i + n ELSE i
InRange(i, n) == i >= -n /\ i < n

\* Keys a Counter can come to hold here: the seven columns and the negative
\* aliases -7..-1 that list indexing accepts.  A Counter reads a missing key
\* as 0, so a total function with 0 for the keys never written is the same.
CounterKeys == (-COLUMNS)..(COLUMNS - 1)
CounterGet(counter, key) == IF key \in DOMAIN counter THEN counter[key] ELSE 0

\* ----------------------------------------------------------- the geometry
horizontal_lines ==
    [i \in 1..(ROWS * (COLUMNS - 3)) |->
        LET row == (i - 1) \div (COLUMNS - 3)
            starting_col == (i - 1) % (COLUMNS - 3)
        IN  << <<row, starting_col>>, <<row, starting_col + 1>>,
               <<row, starting_col + 2>>, <<row, starting_col + 3>> >>]

vertical_lines ==
    [i \in 1..(COLUMNS * (ROWS - 3)) |->
        LET col == (i - 1) \div (ROWS - 3)
            starting_row == (i - 1) % (ROWS - 3)
        IN  << <<starting_row, col>>, <<starting_row + 1, col>>,
               <<starting_row + 2, col>>, <<starting_row + 3, col>> >>]

diagonal_falling_lines ==
    [i \in 1..((ROWS - 3) * (COLUMNS - 3)) |->
        LET starting_row == (i - 1) \div (COLUMNS - 3)
            starting_col == (i - 1) % (COLUMNS - 3)
        IN  << <<starting_row, starting_col>>, <<starting_row + 1, starting_col + 1>>,
               <<starting_row + 2, starting_col + 2>>,
               <<starting_row + 3, starting_col + 3>> >>]

\* for starting_row in range(4, ROWS): the rising runs that start in rows 4
\* and 5 only.
diagonal_rising_lines ==
    [i \in 1..((ROWS - 4) * (COLUMNS - 3)) |->
        LET starting_row == 4 + ((i - 1) \div (COLUMNS - 3))
            starting_col == (i - 1) % (COLUMNS - 3)
        IN  << <<starting_row, starting_col>>, <<starting_row - 1, starting_col + 1>>,
               <<starting_row - 2, starting_col + 2>>,
               <<starting_row - 3, starting_col + 3>> >>]

generate_winning_lines ==
    horizontal_lines \o vertical_lines \o diagonal_falling_lines \o diagonal_rising_lines

WINNING_LINES == generate_winning_lines

\* Every line that contains (row, column), with that coordinate removed.
generate_winning_lines_for_positions(row, column) ==
    LET containing == SelectSeq(WINNING_LINES,
                                LAMBDA line : \E k \in 1..Len(line) : line[k] = <<row, column>>)
    IN  [i \in 1..Len(containing) |->
            SelectSeq(containing[i], LAMBDA position : position # <<row, column>>)]

WINNING_LINES_BY_POSITION ==
    [i \in Rows |-> [j \in Cols |-> generate_winning_lines_for_positions(i, j)]]

\* ------------------------------------------------------------- the state
BoardIds == {"game", "new_board"}
ListRefs == {"default"} \cup BoardIds

VARIABLES
    boards,     \* the Board instances, by the name bound to each
    heap,       \* the list objects that available_moves attributes refer to
    outcome,    \* what the last call returned or raised
    calls       \* calls made since the opening

vars == <<boards, heap, outcome, calls>>

\* A Board with its available_moves attribute read through the heap.
Self(b) == [boards[b] EXCEPT !.available_moves = heap[boards[b].available_moves]]

\* ------------------------------------------------------------- the Board
\* Connect4Board.__init__ ; winner is EMPTY whatever the arguments are.
Connect4Board(moves_made, last_move, board, column_chip_count, available_moves) ==
    [moves_made |-> moves_made,
     last_move |-> last_move,
     winner |-> EMPTY,
     board |-> board,
     column_chip_count |-> column_chip_count,
     available_moves |-> available_moves]

EmptyGrid == [j \in Rows |-> [i \in Cols |-> EMPTY]]
ZeroCounter == [key \in CounterKeys |-> 0]
NoMove == <<-1, -1>>

\* new_available_moves = [available for available in self.available_moves]
\* with the list object of the original kept instead of a new one.
new_available_moves_same_list(original, new_list) == original

\* new_available_moves = [available for available in self.available_moves]:
\* the list object the copy refers to is the new one, not the original's.
new_available_moves(original, new_list) == new_list

\* __deepcopy__, on a Board read through the heap: the copy owns a new list.
deepcopy(self) ==
    Connect4Board(self.moves_made, self.last_move, self.board,
                  self.column_chip_count, self.available_moves)

move_available(self, column) == self.available_moves[PyIndex(column, COLUMNS) + 1]

get_colour_at_position(self, row, column) ==
    self.board[PyIndex(row, ROWS)][PyIndex(column, COLUMNS)]

\* check_winner_from_last_move comparing two of the three other cells.
check_winner_from_last_move_two_cells(self) ==
    IF self.last_move = NoMove THEN EMPTY
    ELSE LET last_row == self.last_move[1]
             last_col == self.last_move[2]
             last_move_colour == get_colour_at_position(self, last_row, last_col)
             lines == WINNING_LINES_BY_POSITION[PyIndex(last_row, ROWS)][PyIndex(last_col, COLUMNS)]
         IN  IF \E k \in 1..Len(lines) :
                    /\ self.board[lines[k][1][1]][lines[k][1][2]] = last_move_colour
                    /\ self.board[lines[k][2][1]][lines[k][2][2]] = last_move_colour
             THEN last_move_colour
             ELSE EMPTY

check_winner_from_last_move(self) ==
    IF self.last_move = NoMove THEN EMPTY
    ELSE LET last_row == self.last_move[1]
             last_col == self.last_move[2]
             last_move_colour == get_colour_at_position(self, last_row, last_col)
             lines == WINNING_LINES_BY_POSITION[PyIndex(last_row, ROWS)][PyIndex(last_col, COLUMNS)]
         IN  IF \E k \in 1..Len(lines) :
                    /\ self.board[lines[k][1][1]][lines[k][1][2]] = last_move_colour
                    /\ self.board[lines[k][2][1]][lines[k][2][2]] = last_move_colour
                    /\ self.board[lines[k][3][1]][lines[k][3][2]] = last_move_colour
             THEN last_move_colour
             ELSE EMPTY

LineComplete(self, line) ==
    /\ self.board[line[1][1]][line[1][2]] # EMPTY
    /\ self.board[line[1][1]][line[1][2]] = self.board[line[2][1]][line[2][2]]
    /\ self.board[line[2][1]][line[2][2]] = self.board[line[3][1]][line[3][2]]
    /\ self.board[line[3][1]][line[3][2]] = self.board[line[4][1]][line[4][2]]

\* The colour of the first complete line in the order of WINNING_LINES.
check_winner_from_board(self) ==
    LET hits == {k \in 1..Len(WINNING_LINES) : LineComplete(self, WINNING_LINES[k])}
    IN  IF hits = {} THEN EMPTY
        ELSE LET first == CHOOSE k \in hits : \A m \in hits : k <= m
                 line == WINNING_LINES[first]
             IN  self.board[line[1][1]][line[1][2]]

\* still_playing without the full-board test.
still_playing_winner_only(self) ==
    IF self.winner # EMPTY THEN FALSE ELSE TRUE

still_playing(self) ==
    IF self.winner # EMPTY \/ self.moves_made = ROWS * COLUMNS THEN FALSE ELSE TRUE

get_winner(self) == self.winner

get_moves_made(self) == self.moves_made

\* __update_column_availability
update_column_availability(self, column) ==
    LET count == CounterGet(self.column_chip_count, column) + 1
        counted == [self EXCEPT !.column_chip_count[column] = count]
    IN  IF count = ROWS
        THEN [counted EXCEPT !.available_moves[PyIndex(column, COLUMNS) + 1] = FALSE]
        ELSE counted

\* place_chip without its moves_made increment.
place_chip_uncounted(self, player, column) ==
    LET row_placed_at == ROWS - CounterGet(self.column_chip_count, column) - 1
    IN  IF row_placed_at < 0
        THEN [self |-> self, raised |-> "ValueError"]
        ELSE IF ~InRange(column, COLUMNS)
        THEN [self |-> self, raised |-> "IndexError"]
        ELSE LET written == [self EXCEPT !.board[row_placed_at][PyIndex(column, COLUMNS)] = player]
                 updated == update_column_availability(written, column)
                 moved == [updated EXCEPT !.last_move = <<row_placed_at, column>>]
             IN  [self |-> [moved EXCEPT !.winner = check_winner_from_last_move(moved)],
                  raised |-> "none"]

\* place_chip with the row counted from the top: the chip is put in row
\* column_chip_count[column] instead of being dropped onto the chips below.
place_chip_from_the_top(self, player, column) ==
    LET row_placed_at == CounterGet(self.column_chip_count, column)
    IN  IF ROWS - row_placed_at - 1 < 0
        THEN [self |-> self, raised |-> "ValueError"]
        ELSE IF ~InRange(column, COLUMNS)
        THEN [self |-> self, raised |-> "IndexError"]
        ELSE LET written == [self EXCEPT !.board[row_placed_at][PyIndex(column, COLUMNS)] = player]
                 updated == update_column_availability(written, column)
                 moved == [updated EXCEPT !.moves_made = @ + 1,
                                          !.last_move = <<row_placed_at, column>>]
             IN  [self |-> [moved EXCEPT !.winner = check_winner_from_last_move(moved)],
                  raised |-> "none"]

\* place_chip on a Board read through the heap: the Board afterwards and the
\* exception raised, if any.  A raise leaves every attribute as it was: the
\* ValueError comes before the first assignment, the IndexError from the
\* first assignment itself.
place_chip(self, player, column) ==
    LET row_placed_at == ROWS - CounterGet(self.column_chip_count, column) - 1
    IN  IF row_placed_at < 0
        THEN [self |-> self, raised |-> "ValueError"]
        ELSE IF ~InRange(column, COLUMNS)
        THEN [self |-> self, raised |-> "IndexError"]
        ELSE LET written == [self EXCEPT !.board[row_placed_at][PyIndex(column, COLUMNS)] = player]
                 updated == update_column_availability(written, column)
                 moved == [updated EXCEPT !.moves_made = @ + 1,
                                          !.last_move = <<row_placed_at, column>>]
             IN  [self |-> [moved EXCEPT !.winner = check_winner_from_last_move(moved)],
                  raised |-> "none"]

\* ------------------------------------------------------------ the Solver
\* Plies searched below each candidate move (Connect4Solver.DEPTH is 5; the
\* search is the same procedure at every depth).
DEPTH == 2

SCORE_TWO == 1
SCORE_THREE == 5

\* numpy's inf: above every minimax value, below none.
inf == 1000

alternate_colour(initial_colour) == IF initial_colour = RED THEN YELLOW ELSE RED

player_value(player) == IF player = RED THEN 1 ELSE -1

RECURSIVE MaxOf(_)
MaxOf(values) ==
    IF Len(values) = 1 THEN values[1]
    ELSE LET rest == MaxOf(Tail(values))
         IN  IF values[1] >= rest THEN values[1] ELSE rest

RECURSIVE MinOf(_)
MinOf(values) ==
    IF Len(values) = 1 THEN values[1]
    ELSE LET rest == MinOf(Tail(values))
         IN  IF values[1] <= rest THEN values[1] ELSE rest

\* new_board = copy.deepcopy(game); new_board.place_chip(player, col)
Hypothetical(game, player, col) == place_chip(deepcopy(game), player, col).self

\* The lowest open column whose placement leaves a winner, or -1.
solveNaive(game, player) ==
    LET winning == {col \in Cols :
                       /\ move_available(game, col)
                       /\ get_winner(Hypothetical(game, player, col)) # EMPTY}
    IN  IF winning = {} THEN -1
        ELSE CHOOSE col \in winning : \A other \in winning : col <= other

RECURSIVE place_chip_recursive(_, _, _), PlaceLoop(_, _, _, _, _)

\* PlaceLoop with the early return taken at any child that has a winner,
\* not only at one with the value that is ideal for player.
PlaceLoop_returns_any_win(game, player, depth, col, values) ==
    IF col < COLUMNS /\ move_available(game, col)
    THEN LET new_board == Hypothetical(game, player, col)
             winner == get_winner(new_board)
             value == IF winner = EMPTY /\ depth > 1
                      THEN place_chip_recursive(new_board, alternate_colour(player), depth - 1)
                      ELSE IF winner = EMPTY THEN 0 ELSE player_value(winner)
         IN  IF value # 0
             THEN value
             ELSE PlaceLoop(game, player, depth, col + 1, Append(values, value))
    ELSE IF Len(values) = 0 THEN 0
    ELSE IF player_value(player) = 1 THEN MaxOf(values)
    ELSE MinOf(values)

\* place_chip_recursive: PlaceLoop is its while loop from column col on, with
\* the values appended so far.  The loop ends at the first column that is
\* not available.
PlaceLoop(game, player, depth, col, values) ==
    IF col < COLUMNS /\ move_available(game, col)
    THEN LET new_board == Hypothetical(game, player, col)
             winner == get_winner(new_board)
             value == IF winner = EMPTY /\ depth > 1
                      THEN place_chip_recursive(new_board, alternate_colour(player), depth - 1)
                      ELSE IF winner = EMPTY THEN 0 ELSE player_value(winner)
         IN  IF value = player_value(player)
             THEN value
             ELSE PlaceLoop(game, player, depth, col + 1, Append(values, value))
    ELSE IF Len(values) = 0 THEN 0
    ELSE IF player_value(player) = 1 THEN MaxOf(values)
    ELSE MinOf(values)

place_chip_recursive(game, player, depth) == PlaceLoop(game, player, depth, 0, << >>)

RECURSIVE MinimaxLoop(_, _, _, _, _)

\* MinimaxLoop with inf * player_value for a column that is not available:
\* the sign of the extreme value the wrong way round.
MinimaxLoop_sign_reversed(game, player, depth, col, minimax_values) ==
    IF col = COLUMNS THEN minimax_values
    ELSE IF ~move_available(game, col)
    THEN MinimaxLoop(game, player, depth, col + 1,
                     Append(minimax_values, inf * player_value(player)))
    ELSE MinimaxLoop(game, player, depth, col + 1,
                     Append(minimax_values,
                            place_chip_recursive(Hypothetical(game, player, col),
                                                 alternate_colour(player), depth)))

\* solve_minimax: MinimaxLoop is its for loop from column col on.  The
\* result holds one value per column, that of column col at index col + 1.
MinimaxLoop(game, player, depth, col, minimax_values) ==
    IF col = COLUMNS THEN minimax_values
    ELSE IF ~move_available(game, col)
    THEN MinimaxLoop(game, player, depth, col + 1,
                     Append(minimax_values, (-inf) * player_value(player)))
    ELSE MinimaxLoop(game, player, depth, col + 1,
                     Append(minimax_values,
                            place_chip_recursive(Hypothetical(game, player, col),
                                                 alternate_colour(player), depth)))

solve_minimax(game, player, depth) == MinimaxLoop(game, player, depth, 0, << >>)

\* The contribution of one line: nothing once it holds a chip of the other
\* colour, else SCORE_TWO for two chips of player and SCORE_THREE for three.
LineScore(game, player, line) ==
    IF \E k \in 1..Len(line) :
           get_colour_at_position(game, line[k][1], line[k][2]) = alternate_colour(player)
    THEN 0
    ELSE LET matching_colour_chips_in_line ==
                 Cardinality({k \in 1..Len(line) :
                     get_colour_at_position(game, line[k][1], line[k][2]) = player})
         IN  IF matching_colour_chips_in_line = 2 THEN SCORE_TWO
             ELSE IF matching_colour_chips_in_line = 3 THEN SCORE_THREE
             ELSE 0

RECURSIVE ScoreLines(_, _, _)
ScoreLines(game, player, n) ==
    IF n = 0 THEN 0
    ELSE LineScore(game, player, WINNING_LINES[n]) + ScoreLines(game, player, n - 1)

get_score(game, player) == ScoreLines(game, player, Len(WINNING_LINES))

\* solve_scoring: ScoringLoop is its while loop from column col on.
RECURSIVE ScoringLoop(_, _, _, _)
ScoringLoop(game, player, col, scores) ==
    IF col = COLUMNS THEN scores
    ELSE IF move_available(game, col)
    THEN ScoringLoop(game, player, col + 1,
                     Append(scores, get_score(Hypothetical(game, player, col), player)))
    ELSE ScoringLoop(game, player, col + 1, Append(scores, 0))

solve_scoring(game, player) == ScoringLoop(game, player, 0, << >>)

\* int(attacking + prophylactic * SCORE_MODIFIER_BLOCK_OPPONENT), with the
\* modifier 2/3: for the scores that occur (0..325) the float product
\* truncates to the same integer as the exact one.
ScoreSum(attacking, prophylactic) == attacking + (2 * prophylactic) \div 3

Abs(n) == IF n < 0 THEN -n ELSE n

\* COLUMNS / 2 + 1 - abs(3 - move) is 4.5 - |3 - move|; kept here as twice
\* that, an integer, next to the 0 of the columns that are no candidates.
CentralProximity(move) == COLUMNS + 2 - 2 * Abs(3 - move)

\* The stages of solveBoard.  A value that a stage computes once and reads
\* several times is bound once, as v \in {e}.
Returns(columns) == {[raised |-> "none", value |-> <<col>>] : col \in columns}

Raises(exception) == {[raised |-> exception, value |-> << >>]}

\* optimal_moves: the columns whose minimax value is the best for player.
BestColumns(player, minimax) ==
    LET best == IF player = RED THEN MaxOf(minimax) ELSE MinOf(minimax)
    IN  {col \in Cols : minimax[col + 1] = best}

OptimalMoves(game, player) ==
    UNION {{BestColumns(player, minimax)} :
              minimax \in {solve_minimax(game, player, DEPTH)}}

\* optimal_moves_from_scores: score_sums is 0 outside optimal_moves, and the
\* maximum is taken over all seven entries.
HighestScores(optimal_moves, attacking_scores, prophylactic_scores) ==
    LET score_sums == [i \in 1..COLUMNS |->
                          IF (i - 1) \in optimal_moves
                          THEN ScoreSum(attacking_scores[i], prophylactic_scores[i])
                          ELSE 0]
    IN  {move \in optimal_moves : score_sums[move + 1] = MaxOf(score_sums)}

OptimalMovesFromScores(game, player, optimal_moves) ==
    UNION {{HighestScores(optimal_moves, attacking_scores, prophylactic_scores)} :
              attacking_scores \in {solve_scoring(game, player)},
              prophylactic_scores \in {solve_scoring(game, alternate_colour(player))}}

\* central_moves with min(central_proximity) in place of max: the 0 of a
\* column that is no candidate is then the value to match.
CentralMoves_least_central(optimal_moves_from_scores) ==
    LET central_proximity == [i \in 1..COLUMNS |->
                                 IF (i - 1) \in optimal_moves_from_scores
                                 THEN CentralProximity(i - 1) ELSE 0]
    IN  {move \in optimal_moves_from_scores :
            central_proximity[move + 1] = MinOf(central_proximity)}

\* central_moves
CentralMoves(optimal_moves_from_scores) ==
    LET central_proximity == [i \in 1..COLUMNS |->
                                 IF (i - 1) \in optimal_moves_from_scores
                                 THEN CentralProximity(i - 1) ELSE 0]
    IN  {move \in optimal_moves_from_scores :
            central_proximity[move + 1] = MaxOf(central_proximity)}

\* From "if len(central_moves) == 0" on: an empty central_moves makes both
\* central_moves[0] and random.choice raise IndexError.
ChooseCentral(central_moves) ==
    IF central_moves = {} THEN Raises("IndexError") ELSE Returns(central_moves)

\* From "if len(optimal_moves_from_scores) == 1" on.
ChooseFromScores(optimal_moves_from_scores) ==
    IF Cardinality(optimal_moves_from_scores) = 1
    THEN Returns(optimal_moves_from_scores)
    ELSE ChooseCentral(CentralMoves(optimal_moves_from_scores))

\* From "if len(optimal_moves) == 1" on.
ChooseFromOptimal(game, player, optimal_moves) ==
    IF Cardinality(optimal_moves) = 1
    THEN Returns(optimal_moves)
    ELSE UNION {ChooseFromScores(optimal_moves_from_scores) :
                   optimal_moves_from_scores \in
                       OptimalMovesFromScores(game, player, optimal_moves)}

\* From the minimax call on.
SearchAndTieBreak(game, player) ==
    UNION {ChooseFromOptimal(game, player, optimal_moves) :
              optimal_moves \in OptimalMoves(game, player)}

\* solveBoard: the set of ways the call can end, one per outcome of
\* random.choice.
solveBoard(game, player) ==
    UNION {IF win_now # -1 THEN Returns({win_now})
           ELSE UNION {IF lose_next_turn # -1 THEN Returns({lose_next_turn})
                       ELSE SearchAndTieBreak(game, player) :
                          lose_next_turn \in {solveNaive(game, alternate_colour(player))}} :
              win_now \in {solveNaive(game, player)}}

\* ------------------------------------------------------------ openings
\* Recorded sequences of legal placements, <<player, column>>, played on the
\* first Board from its empty state before the calls below begin.
OpeningEmpty == << >>

\* RED on the bottom row in columns 1..3, YELLOW above them.
OpeningThrees ==
    << <<RED, 1>>, <<YELLOW, 1>>, <<RED, 2>>, <<YELLOW, 2>>, <<RED, 3>>, <<YELLOW, 3>> >>

\* RED holds (3,0), (2,1), (1,2); column 3 is one chip short of full.
OpeningTopDiagonal ==
    << <<RED, 2>>, <<YELLOW, 2>>, <<RED, 2>>, <<YELLOW, 2>>, <<RED, 2>>, <<YELLOW, 3>>,
       <<RED, 3>>, <<YELLOW, 3>>, <<RED, 3>>, <<YELLOW, 1>>, <<RED, 3>>, <<YELLOW, 1>>,
       <<RED, 1>>, <<YELLOW, 0>>, <<RED, 1>>, <<YELLOW, 0>>, <<RED, 0>>, <<YELLOW, 6>> >>

\* 41 chips without a four-in-a-row; the last free cell is the top of column 5.
OpeningNearDraw ==
    << <<RED, 1>>, <<YELLOW, 0>>, <<RED, 1>>, <<YELLOW, 0>>, <<RED, 0>>, <<YELLOW, 0>>,
       <<RED, 0>>, <<YELLOW, 0>>, <<RED, 1>>, <<YELLOW, 1>>, <<RED, 1>>, <<YELLOW, 2>>,
       <<RED, 1>>, <<YELLOW, 4>>, <<RED, 2>>, <<YELLOW, 4>>, <<RED, 2>>, <<YELLOW, 6>>,
       <<RED, 2>>, <<YELLOW, 2>>, <<RED, 3>>, <<YELLOW, 2>>, <<RED, 3>>, <<YELLOW, 3>>,
       <<RED, 4>>, <<YELLOW, 3>>, <<RED, 5>>, <<YELLOW, 3>>, <<RED, 3>>, <<YELLOW, 4>>,
       <<RED, 5>>, <<YELLOW, 4>>, <<RED, 5>>, <<YELLOW, 5>>, <<RED, 5>>, <<YELLOW, 6>>,
       <<RED, 6>>, <<YELLOW, 4>>, <<RED, 6>>, <<YELLOW, 6>>, <<RED, 6>>  >>

\* RED is one chip from a falling diagonal (column 2), a vertical run
\* (column 3) and a rising diagonal from the bottom row (column 4).
OpeningDiagonals ==
    << <<RED, 1>>, <<YELLOW, 0>>, <<RED, 4>>, <<YELLOW, 2>>, <<RED, 2>>, <<YELLOW, 3>>,
       <<RED, 3>>, <<YELLOW, 1>>, <<RED, 3>>, <<YELLOW, 1>>, <<RED, 1>>, <<YELLOW, 4>>,
       <<RED, 3>>, <<YELLOW, 6>>, <<RED, 6>>, <<YELLOW, 4>> >>

\* One RED chip in the corner.
OpeningCorner == << <<RED, 0>> >>

\* Column 0 is full; RED holds the bottom row in columns 0..2.
OpeningFullColumn ==
    << <<RED, 0>>, <<YELLOW, 0>>, <<RED, 0>>, <<YELLOW, 0>>, <<RED, 0>>, <<YELLOW, 0>>,
       <<RED, 1>>, <<YELLOW, 1>>, <<RED, 2>>, <<YELLOW, 2>> >>

Openings ==
    {OpeningEmpty, OpeningCorner, OpeningThrees, OpeningDiagonals, OpeningTopDiagonal,
     OpeningFullColumn, OpeningNearDraw}

AllOpen == [i \in 1..COLUMNS |-> TRUE]

\* Board() with no arguments, its available_moves read through the heap.
NewEmptyBoard(available_moves) ==
    Connect4Board(0, NoMove, EmptyGrid, ZeroCounter, available_moves)

RECURSIVE PlayOpening(_, _)
PlayOpening(self, moves) ==
    IF moves = << >> THEN self
    ELSE LET after == place_chip(self, Head(moves)[1], Head(moves)[2])
         IN  IF after.raised = "none" THEN PlayOpening(after.self, Tail(moves)) ELSE self

\* ------------------------------------------------------------- the calls
Outcome(call, b, raised, value) ==
    [call |-> call, board |-> b, player |-> EMPTY, depth |-> 0,
     raised |-> raised, value |-> value]

\* Python's None as a return value; an int n is returned as <<n>>.
None == << >>

Init ==
    \E opening \in Openings :
        LET played == PlayOpening(NewEmptyBoard(AllOpen), opening)
        IN  /\ boards = ("game" :> [played EXCEPT !.available_moves = "default"])
            /\ heap = [ref \in ListRefs |->
                          IF ref = "default" THEN played.available_moves ELSE AllOpen]
            /\ outcome = Outcome("Connect4Board", "game", "none", None)
            /\ calls = 0

\* b = Connect4Board(): the new Board's available_moves is the default list
\* object itself.
NewBoard(b) ==
    /\ calls < MaxCalls
    /\ boards' = (b :> NewEmptyBoard("default")) @@ boards
    /\ heap' = [heap EXCEPT ![b] = AllOpen]
    /\ outcome' = Outcome("Connect4Board", b, "none", None)
    /\ calls' = calls + 1

\* dst = copy.deepcopy(src)
DeepCopy(src, dst) ==
    /\ calls < MaxCalls
    /\ src \in DOMAIN boards
    /\ src # dst
    /\ LET ref == new_available_moves(boards[src].available_moves, dst)
       IN  /\ boards' = (dst :> [deepcopy(Self(src)) EXCEPT !.available_moves = ref]) @@ boards
           /\ heap' = [heap EXCEPT ![ref] = deepcopy(Self(src)).available_moves]
    /\ outcome' = Outcome("deepcopy", dst, "none", None)
    /\ calls' = calls + 1

\* b.place_chip(player, column)
PlaceChip(b, player, column) ==
    /\ calls < MaxCalls
    /\ b \in DOMAIN boards
    /\ LET after == place_chip(Self(b), player, column)
           ref == boards[b].available_moves
       IN  /\ boards' = [boards EXCEPT ![b] = [after.self EXCEPT !.available_moves = ref]]
           /\ heap' = [heap EXCEPT ![ref] = after.self.available_moves]
           /\ outcome' = Outcome("place_chip", b, after.raised, None)
    /\ calls' = calls + 1

\* A placement is legal when the column exists and holds fewer than ROWS chips.
Legal(b, column) ==
    /\ b \in DOMAIN boards
    /\ column \in Cols
    /\ boards[b].column_chip_count[column] < ROWS

LegalPlaceChip ==
    \E b \in BoardIds, player \in Players, column \in Cols :
        Legal(b, column) /\ PlaceChip(b, player, column)

Construct == \E b \in BoardIds : NewBoard(b)

Copy == \E src \in BoardIds, dst \in BoardIds : DeepCopy(src, dst)

Next == LegalPlaceChip \/ Construct \/ Copy

Spec == Init /\ [][Next]_vars

\* Any column argument, in range or not.
InputColumns == {-COLUMNS - 1, -1} \cup Cols \cup {COLUMNS}

AnyPlaceChip ==
    \E b \in BoardIds, player \in Players, column \in InputColumns :
        PlaceChip(b, player, column)

NextCalls == AnyPlaceChip \/ Construct \/ Copy

SpecCalls == Init /\ [][NextCalls]_vars

\* The Solver's hypothetical placement as it acts on the lists of the heap h:
\* new_board = copy.deepcopy(boards[b]); new_board.place_chip(player, col).
\* place_chip writes new_board's attributes and the list new_board refers
\* to.  new_board is a local name, so its list stays on the heap only when
\* it is a list that a Board of boards refers to as well.
HeapAfterHypothetical(h, b, player, col) ==
    LET game == [boards[b] EXCEPT !.available_moves = h[boards[b].available_moves]]
        ref == new_available_moves(boards[b].available_moves, "new_available_moves")
    IN  IF ref \in DOMAIN h
        THEN [h EXCEPT ![ref] = Hypothetical(game, player, col).available_moves]
        ELSE h

\* The hypothetical placements of one loop over the columns, in ascending
\* order, for the columns in tried.
RECURSIVE HeapAfterLoop(_, _, _, _, _)
HeapAfterLoop(h, b, player, col, tried) ==
    IF col = COLUMNS THEN h
    ELSE IF col \in tried
    THEN HeapAfterLoop(HeapAfterHypothetical(h, b, player, col), b, player, col + 1, tried)
    ELSE HeapAfterLoop(h, b, player, col + 1, tried)

Available(game) == {col \in Cols : move_available(game, col)}

\* solveNaive tries the available columns up to the one it returns.
TriedBySolveNaive(game, player) ==
    {col \in Available(game) :
        solveNaive(game, player) = -1 \/ col <= solveNaive(game, player)}

\* place_chip_recursive tries the columns below the first unavailable one
\* (its early return can end the loop before the last of them).
TriedByPlaceChipRecursive(game) ==
    {col \in Cols : \A c \in 0..col : move_available(game, c)}

HeapAfterSolveNaive(h, b, player) ==
    HeapAfterLoop(h, b, player, 0, TriedBySolveNaive(Self(b), player))

\* solve_minimax and solve_scoring try every available column.
HeapAfterSolveMinimax(h, b, player) ==
    HeapAfterLoop(h, b, player, 0, Available(Self(b)))

HeapAfterSolveScoring(h, b, player) ==
    HeapAfterLoop(h, b, player, 0, Available(Self(b)))

HeapAfterPlaceChipRecursive(h, b, player) ==
    HeapAfterLoop(h, b, player, 0, TriedByPlaceChipRecursive(Self(b)))

\* solveBoard places chips only through the calls it makes, each on the
\* same game: solveNaive for player, solveNaive for the other colour unless
\* the first found a column, then solve_minimax and the two solve_scoring
\* calls unless the second found one (the scoring calls are skipped when
\* the minimax stage leaves one candidate).
HeapAfterSolveBoard(h, b, player) ==
    IF solveNaive(Self(b), player) # -1
    THEN HeapAfterSolveNaive(h, b, player)
    ELSE IF solveNaive(Self(b), alternate_colour(player)) # -1
    THEN HeapAfterSolveNaive(HeapAfterSolveNaive(h, b, player), b, alternate_colour(player))
    ELSE HeapAfterSolveScoring(
             HeapAfterSolveScoring(
                 HeapAfterSolveMinimax(
                     HeapAfterSolveNaive(HeapAfterSolveNaive(h, b, player),
                                         b, alternate_colour(player)),
                     b, player),
                 b, player),
             b, alternate_colour(player))

\* move = solveBoard(b, player), on a Board still in play as in play().
SolveBoard(b, player) ==
    /\ b \in DOMAIN boards
    /\ still_playing(Self(b))
    /\ \E end \in solveBoard(Self(b), player) :
          outcome' = [call |-> "solveBoard", board |-> b, player |-> player, depth |-> DEPTH,
                      raised |-> end.raised, value |-> end.value]
    /\ heap' = HeapAfterSolveBoard(heap, b, player)
    /\ UNCHANGED <<boards, calls>>

\* The Solver is called on a position that a Board call has just produced:
\* play() places a chip between any two of its solveBoard calls.
AfterBoardCall == outcome.call \in {"Connect4Board", "deepcopy", "place_chip"}

\* b.place_chip(player, move) with the move solveBoard has just returned.
PlaceReturned ==
    /\ outcome.call = "solveBoard"
    /\ outcome.raised = "none"
    /\ PlaceChip(outcome.board, outcome.player, outcome.value[1])

Solve == AfterBoardCall /\ \E b \in BoardIds, player \in Players : SolveBoard(b, player)

NextSolve == Solve \/ PlaceReturned \/ Construct

SpecSolve == Init /\ [][NextSolve]_vars

\* ------------------------------------------- the Solver's operations
\* Depths the search operations are called with: up to the depth that
\* solveBoard searches to.
SearchDepths == 1..DEPTH

SolverOutcome(call, b, player, depth, value) ==
    [call |-> call, board |-> b, player |-> player, depth |-> depth,
     raised |-> "none", value |-> <<value>>]

\* col = solveNaive(b, player)
SolveNaive(b, player) ==
    /\ b \in DOMAIN boards
    /\ outcome' = SolverOutcome("solveNaive", b, player, 0, solveNaive(Self(b), player))
    /\ heap' = HeapAfterSolveNaive(heap, b, player)
    /\ UNCHANGED <<boards, calls>>

\* minimax_values = solve_minimax(b, player, depth)
SolveMinimax(b, player, depth) ==
    /\ b \in DOMAIN boards
    /\ outcome' = SolverOutcome("solve_minimax", b, player, depth,
                                solve_minimax(Self(b), player, depth))
    /\ heap' = HeapAfterSolveMinimax(heap, b, player)
    /\ UNCHANGED <<boards, calls>>

\* value = place_chip_recursive(b, player, depth)
PlaceChipRecursive(b, player, depth) ==
    /\ b \in DOMAIN boards
    /\ outcome' = SolverOutcome("place_chip_recursive", b, player, depth,
                                place_chip_recursive(Self(b), player, depth))
    /\ heap' = HeapAfterPlaceChipRecursive(heap, b, player)
    /\ UNCHANGED <<boards, calls>>

\* scores = solve_scoring(b, player)
SolveScoring(b, player) ==
    /\ b \in DOMAIN boards
    /\ outcome' = SolverOutcome("solve_scoring", b, player, 0, solve_scoring(Self(b), player))
    /\ heap' = HeapAfterSolveScoring(heap, b, player)
    /\ UNCHANGED <<boards, calls>>

\* A move of a game in play, as play() makes them: RED moves first, the
\* colours alternate, and the column is one that move_available accepts.
GameMove ==
    \E column \in Cols :
        /\ calls < MaxMoves
        /\ still_playing(Self("game"))
        /\ move_available(Self("game"), column)
        /\ PlaceChip("game", IF boards["game"].moves_made % 2 = 0 THEN RED ELSE YELLOW, column)

Naive ==
    AfterBoardCall /\ \E b \in BoardIds, player \in Players : SolveNaive(b, player)

Minimax ==
    AfterBoardCall /\ \E b \in BoardIds, player \in Players, depth \in SearchDepths :
                         SolveMinimax(b, player, depth)

Recursive ==
    AfterBoardCall /\ \E b \in BoardIds, player \in Players, depth \in SearchDepths :
                         PlaceChipRecursive(b, player, depth)

Scoring ==
    AfterBoardCall /\ \E b \in BoardIds, player \in Players : SolveScoring(b, player)

NextSearch == GameMove \/ Naive \/ Minimax \/ Recursive \/ Scoring \/ Solve

SpecSearch == Init /\ [][NextSearch]_vars

\* ------------------------------------------------------------- play()
\* Columns 0, 1, 2, 4, 5 and 6 are full and column 3 is empty; no line of
\* four is complete.
OpeningCentreOpen ==
    << <<RED, 0>>, <<YELLOW, 0>>, <<RED, 0>>, <<YELLOW, 0>>, <<RED, 0>>, <<YELLOW, 0>>,
       <<RED, 1>>, <<YELLOW, 1>>, <<RED, 1>>, <<YELLOW, 1>>, <<RED, 1>>, <<YELLOW, 1>>,
       <<RED, 2>>, <<YELLOW, 2>>, <<RED, 2>>, <<YELLOW, 2>>, <<RED, 2>>, <<YELLOW, 2>>,
       <<RED, 4>>, <<YELLOW, 4>>, <<RED, 4>>, <<YELLOW, 4>>, <<RED, 4>>, <<YELLOW, 4>>,
       <<RED, 5>>, <<YELLOW, 5>>, <<RED, 5>>, <<YELLOW, 5>>, <<RED, 5>>, <<YELLOW, 5>>,
       <<RED, 6>>, <<YELLOW, 6>>, <<RED, 6>>, <<YELLOW, 6>>, <<RED, 6>>, <<YELLOW, 6>> >>

\* Positions of the first Board when play() is called.
PlayOpenings ==
    {OpeningEmpty, OpeningThrees, OpeningFullColumn, OpeningNearDraw, OpeningCentreOpen}

\* Placements made on a second Board before play() is called on it.
SecondOpenings == {<< >>, << <<RED, 3>> >>}

PlayOutcome(call, b, player, raised, value) ==
    [call |-> call, board |-> b, player |-> player, depth |-> 0,
     raised |-> raised, value |-> value]

\* play(game) has been called and has printed the board (line 27).  game is
\* either the first Board, after its opening, or a second Board made by
\* new_board = Connect4Board() once the first has been played on, after the
\* placements of second.  Both Boards refer to the default list.
InitPlay ==
    \E opening \in PlayOpenings :
        LET first == PlayOpening(NewEmptyBoard(AllOpen), opening)
        IN  \/ /\ boards = ("game" :> [first EXCEPT !.available_moves = "default"])
               /\ heap = [ref \in ListRefs |->
                             IF ref = "default" THEN first.available_moves ELSE AllOpen]
               /\ outcome = PlayOutcome("print", "game", EMPTY, "none", None)
               /\ calls = 0
            \/ \E second \in SecondOpenings :
                   LET played == PlayOpening(NewEmptyBoard(first.available_moves), second)
                   IN  /\ boards = ("game" :> [first EXCEPT !.available_moves = "default"])
                                   @@ ("new_board" :> [played EXCEPT !.available_moves = "default"])
                       /\ heap = [ref \in ListRefs |->
                                     IF ref = "default" THEN played.available_moves ELSE AllOpen]
                       /\ outcome = PlayOutcome("print", "new_board", EMPTY, "none", None)
                       /\ calls = 0

\* The Board that play() was called on.
PlayedBoard == outcome.board

\* game.place_chip(player, column) as play() calls it; calls counts the
\* place_chip calls of the loop.
PlayPlaceChip(b, player, column) ==
    LET after == place_chip(Self(b), player, column)
        ref == boards[b].available_moves
    IN  /\ boards' = [boards EXCEPT ![b] = [after.self EXCEPT !.available_moves = ref]]
        /\ heap' = [heap EXCEPT ![ref] = after.self.available_moves]
        /\ outcome' = PlayOutcome("place_chip", b, player, after.raised, None)
        /\ calls' = calls + 1

\* The human is asked for a column: the outer loop's test has passed and
\* the inner loop has not yet read a valid column.
HumanTurn ==
    /\ outcome.raised = "none"
    /\ \/ outcome.call \in {"print", "input"}
       \/ outcome.call = "place_chip" /\ outcome.player = YELLOW
    /\ still_playing(Self(PlayedBoard))

\* The columns the human enters: any column, in range or not, in the first
\* MaxMoves turns; after that the lowest column that is accepted, or -1.
HumanInputs ==
    IF calls \div 2 < MaxMoves
    THEN InputColumns
    ELSE {-1} \cup {col \in Available(Self(PlayedBoard)) :
                       \A other \in Available(Self(PlayedBoard)) : col <= other}

\* One pass of the inner loop: input_col is read, and either it is valid and
\* the chip is placed, or "Invalid move" is printed and the human is asked
\* again.
HumanInput(input_col) ==
    /\ HumanTurn
    /\ IF input_col >= 0 /\ input_col < COLUMNS /\ move_available(Self(PlayedBoard), input_col)
       THEN PlayPlaceChip(PlayedBoard, RED, input_col)
       ELSE /\ outcome' = PlayOutcome("input", PlayedBoard, RED, "none", <<input_col>>)
            /\ UNCHANGED <<boards, heap, calls>>

Human == \E input_col \in HumanInputs : HumanInput(input_col)

\* minimax_move = self.solveBoard(game, Colour.YELLOW), after RED's chip
\* when the game is not over (lines 41-45).
AfterHumanChip ==
    /\ outcome.call = "place_chip"
    /\ outcome.player = RED
    /\ outcome.raised = "none"
    /\ still_playing(Self(PlayedBoard))

AISolve == AfterHumanChip /\ SolveBoard(PlayedBoard, YELLOW)

\* game.place_chip(Colour.YELLOW, minimax_move)
AIPlace ==
    /\ outcome.call = "solveBoard"
    /\ outcome.raised = "none"
    /\ PlayPlaceChip(PlayedBoard, YELLOW, outcome.value[1])

\* The loop is left, by its test or by the break, and the result is printed:
\* play() returns, with the winner it has read (EMPTY for a tie).
PlayReturn ==
    /\ outcome.raised = "none"
    /\ outcome.call \in {"print", "place_chip"}
    /\ ~still_playing(Self(PlayedBoard))
    /\ outcome' = PlayOutcome("play", PlayedBoard, get_winner(Self(PlayedBoard)), "none", None)
    /\ UNCHANGED <<boards, heap, calls>>

NextPlay == Human \/ AISolve \/ AIPlace \/ PlayReturn

\* play() runs on: whatever the human does, the steps of the program itself
\* are taken.  AISolve can be taken exactly when AfterHumanChip holds (every
\* call of solveBoard ends), so its weak fairness is written with that
\* condition.
SpecPlay ==
    /\ InitPlay
    /\ [][NextPlay]_vars
    /\ ([]<>~AfterHumanChip \/ []<><<AISolve>>_vars)
    /\ WF_vars(AIPlace)
    /\ WF_vars(PlayReturn)

\* ------------------------------------------------------------- claims
RECURSIVE SumHeights(_, _)
SumHeights(counter, n) ==
    IF n = 0 THEN 0 ELSE counter[n - 1] + SumHeights(counter, n - 1)

\* C1: after any sequence of legal placements, on every Board moves_made is
\* the sum of the seven column heights, every height is in 0..6 and
\* moves_made is in 0..42.
C1_MovesMadeIsSumOfHeights ==
    \A b \in DOMAIN boards :
        /\ boards[b].moves_made = SumHeights(boards[b].column_chip_count, 7)
        /\ \A c \in 0..6 : boards[b].column_chip_count[c] \in 0..6
        /\ boards[b].moves_made \in 0..42

\* A placement has just filled the last cell of a Board.
C1_Witness ==
    /\ outcome.call = "place_chip"
    /\ outcome.raised = "none"
    /\ boards[outcome.board].moves_made = 42
    /\ \A c \in 0..6 : boards[outcome.board].column_chip_count[c] = 6

\* The cell (row, col) of grid lies in four consecutive cells of colour, in a
\* row, a column or either diagonal, all on the board.
Directions == {<<0, 1>>, <<1, 0>>, <<1, 1>>, <<1, -1>>}

FourInARow(grid, row, col, colour) ==
    \E d \in Directions, k \in 0..3 :
        \A i \in 0..3 :
            LET r == row + (i - k) * d[1]
                c == col + (i - k) * d[2]
            IN  r \in 0..5 /\ c \in 0..6 /\ grid[r][c] = colour

\* C2: a legal placement on a Board whose winner is Empty makes winner the
\* placed colour exactly when the written cell lies in four consecutive
\* cells of that colour in one of the four directions, and Empty otherwise.
C2_WinnerIffFourInARow ==
    [][\A b \in BoardIds, player \in Players, column \in Cols :
          (/\ Legal(b, column)
           /\ boards[b].winner = EMPTY
           /\ PlaceChip(b, player, column))
          => boards'[b].winner =
                IF FourInARow(boards'[b].board,
                              5 - boards[b].column_chip_count[column], column, player)
                THEN player ELSE EMPTY]_vars

\* C3: once winner is not Empty, a later place_chip on the same Board leaves
\* winner as it was.
C3_WinnerIsSticky ==
    [][\A b \in BoardIds, player \in Players, column \in Cols :
          (/\ Legal(b, column)
           /\ boards[b].winner # EMPTY
           /\ PlaceChip(b, player, column))
          => boards'[b].winner = boards[b].winner]_vars

\* C4, as stated: on every reachable Board the incremental check and the
\* full scan return the same colour.
C4_ChecksAgreeEverywhere ==
    \A b \in DOMAIN boards :
        check_winner_from_last_move(Self(b)) = check_winner_from_board(Self(b))

\* The Board as it was before its most recent placement put a chip on it.
WithoutLastMove(self) ==
    IF self.last_move = NoMove THEN self
    ELSE [self EXCEPT !.board[self.last_move[1]][self.last_move[2]] = EMPTY]

\* C4, amended: the incremental check and the full scan return the same
\* colour on every reachable Board for which the full scan found no winner
\* before the most recent placement.
C4_ChecksAgreeUntilFirstWin ==
    \A b \in DOMAIN boards :
        check_winner_from_board(WithoutLastMove(Self(b))) = EMPTY
            => check_winner_from_last_move(Self(b)) = check_winner_from_board(Self(b))

\* A placement has just completed the first line of a Board, and both checks
\* report its colour.
C4_Witness ==
    /\ outcome.call = "place_chip"
    /\ outcome.raised = "none"
    /\ check_winner_from_board(WithoutLastMove(Self(outcome.board))) = EMPTY
    /\ check_winner_from_last_move(Self(outcome.board)) # EMPTY
    /\ check_winner_from_board(Self(outcome.board)) # EMPTY

\* C5: place_chip into a column for which move_available is false raises the
\* illegal-move error and changes nothing.
C5_ClosedColumnRejected ==
    [][\A b \in BoardIds, player \in Players, column \in Cols :
          (/\ b \in DOMAIN boards
           /\ ~move_available(Self(b), column)
           /\ PlaceChip(b, player, column))
          => (outcome'.raised = "ValueError" /\ boards' = boards /\ heap' = heap)]_vars

\* C6: place_chip with a column index outside 0..6 raises an error and
\* changes nothing.
C6_OutOfRangeRejected ==
    [][\A b \in BoardIds, player \in Players, column \in InputColumns \ Cols :
          PlaceChip(b, player, column)
          => (outcome'.raised # "none" /\ boards' = boards /\ heap' = heap)]_vars

\* C7: on every Board, move_available(c) is true exactly when that Board's
\* own height of column c is below 6.
C7_AvailableIffBelowSix ==
    \A b \in DOMAIN boards, c \in 0..6 :
        move_available(Self(b), c) <=> boards[b].column_chip_count[c] < 6

StraightRun(line) ==
    /\ Len(line) = 4
    /\ \A k \in 1..4 : line[k][1] \in 0..5 /\ line[k][2] \in 0..6
    /\ \E d \in Directions \cup {<<-1, 1>>} :
          \A k \in 1..3 : line[k + 1] = <<line[k][1] + d[1], line[k][2] + d[2]>>

\* C8: generate_winning_lines() returns 69 distinct lines, 24 horizontal, 21
\* vertical, 12 falling and 12 rising, each a straight run of 4 cells on
\* the board.
C8_SixtyNineLines ==
    /\ boards # << >>
    /\ Len(generate_winning_lines) = 69
    /\ Len(horizontal_lines) = 24
    /\ Len(vertical_lines) = 21
    /\ Len(diagonal_falling_lines) = 12
    /\ Len(diagonal_rising_lines) = 12
    /\ \A i, j \in 1..Len(generate_winning_lines) :
          i # j => generate_winning_lines[i] # generate_winning_lines[j]
    /\ \A i \in 1..Len(generate_winning_lines) : StraightRun(generate_winning_lines[i])

\* C9: still_playing() is false exactly when winner is not Empty or
\* moves_made is 42, and moves_made is 42 exactly when no cell is Empty, so
\* that a full Board with Empty winner is the tie.
C9_StillPlaying ==
    \A b \in DOMAIN boards :
        /\ still_playing(Self(b)) = FALSE
              <=> (boards[b].winner # EMPTY \/ boards[b].moves_made = 42)
        /\ boards[b].moves_made = 42
              <=> \A r \in 0..5, c \in 0..6 : boards[b].board[r][c] # EMPTY

\* The tie: a placement has filled the Board and nobody has won.
C9_Witness ==
    /\ outcome.call = "place_chip"
    /\ outcome.raised = "none"
    /\ \A r \in 0..5, c \in 0..6 : boards[outcome.board].board[r][c] # EMPTY
    /\ boards[outcome.board].winner = EMPTY
    /\ ~still_playing(Self(outcome.board))

\* C10: on a Board still in play solveBoard returns, for either colour and
\* every outcome of the random choice, a column in 0..6 for which
\* move_available is true.
C10_SolveBoardReturnsOpenColumn ==
    outcome.call = "solveBoard"
        => /\ outcome.raised = "none"
           /\ Len(outcome.value) = 1
           /\ outcome.value[1] \in 0..6
           /\ move_available(Self(outcome.board), outcome.value[1])

\* The columns c for which move_available is true and in which a chip of
\* player, dropped on the chips column c holds, lies in four consecutive
\* cells of player's colour.
CompletesFour(self, player, c) ==
    LET row == 5 - self.column_chip_count[c]
    IN  /\ row \in 0..5
        /\ FourInARow([self.board EXCEPT ![row][c] = player], row, c, player)

WinningColumns(self, player) ==
    {c \in 0..6 : move_available(self, c) /\ CompletesFour(self, player, c)}

Lowest(columns) == CHOOSE c \in columns : \A d \in columns : c <= d

Opponent(player) == IF player = RED THEN YELLOW ELSE RED

\* C11: solveBoard returns the lowest open column in which the mover wins
\* at once if there is one; otherwise the lowest open column in which the
\* opponent would win at once if there is one; and only when there is
\* neither, a result of the minimax and tie-break stages.
C11_StagesInStrictPriority ==
    outcome.call = "solveBoard"
        => LET game == Self(outcome.board)
               own == WinningColumns(game, outcome.player)
               theirs == WinningColumns(game, Opponent(outcome.player))
           IN  /\ outcome.raised = "none"
               /\ own # {} => outcome.value[1] = Lowest(own)
               /\ (own = {} /\ theirs # {}) => outcome.value[1] = Lowest(theirs)
               /\ (own = {} /\ theirs = {})
                     => [raised |-> "none", value |-> outcome.value]
                            \in SearchAndTieBreak(game, outcome.player)

\* C12: solveNaive returns the lowest open column in which placing the
\* player's chip completes a four-in-a-row of the player, and -1 exactly
\* when no open column does.
C12_SolveNaiveLowestWinningColumn ==
    outcome.call = "solveNaive"
        => LET wins == WinningColumns(Self(outcome.board), outcome.player)
           IN  outcome.value[1] = IF wins = {} THEN -1 ELSE Lowest(wins)

\* C13: solve_minimax with depth 1 reports, at every open column in which
\* the mover wins at once, the mover's ideal value: +1 for RED, -1 for
\* YELLOW.
C13_MinimaxDepthOneSeesWin ==
    (outcome.call = "solve_minimax" /\ outcome.depth = 1)
        => \A c \in WinningColumns(Self(outcome.board), outcome.player) :
               outcome.value[1][c + 1] = IF outcome.player = RED THEN 1 ELSE -1

SolverCalls == {"solveBoard", "solveNaive", "solve_minimax", "solve_scoring"}

\* C14: solveBoard, solveNaive, solve_minimax and solve_scoring leave the
\* Board they are passed as it was: its grid, column heights, availability
\* flags, moves_made, last_move and winner are the same after the call as
\* before it.
C14_SolverLeavesBoardUnchanged ==
    [][\A b \in BoardIds :
          (outcome.call \notin SolverCalls /\ outcome'.call \in SolverCalls
              /\ outcome'.board = b)
          => /\ Self(b)' = Self(b)
             /\ boards' = boards
             /\ heap' = heap]_vars

\* A Solver call has returned on a Board with a column one chip short of
\* full: the hypothetical placement in that column filled it on the clone,
\* and the Board's own flag still says the column is available.
C14_Witness ==
    /\ outcome.call \in SolverCalls
    /\ \E c \in 0..6 :
           /\ boards[outcome.board].column_chip_count[c] = 5
           /\ move_available(Self(outcome.board), c)
           /\ ~move_available(Hypothetical(Self(outcome.board), outcome.player, c), c)

\* The largest and the smallest member of a set of integers.
Greatest(values) == CHOOSE v \in values : \A w \in values : v >= w
Least(values) == CHOOSE v \in values : \A w \in values : v <= w

\* The minimax value of a node as C15 states it: over every column for
\* which move_available is true, whichever other columns are full.
RECURSIVE MinimaxOverOpenColumns(_, _, _)
MinimaxOverOpenColumns(self, mover, depth) ==
    LET open == {c \in 0..6 : move_available(self, c)}
        ChildValue(c) ==
            LET child == Hypothetical(self, mover, c)
            IN  IF child.winner = RED THEN 1
                ELSE IF child.winner = YELLOW THEN -1
                ELSE IF depth = 1 THEN 0
                ELSE MinimaxOverOpenColumns(child, Opponent(mover), depth - 1)
    IN  IF open = {} THEN 0
        ELSE IF mover = RED THEN Greatest({ChildValue(c) : c \in open})
        ELSE Least({ChildValue(c) : c \in open})

\* C15: place_chip_recursive(board, mover, depth) returns the minimax value
\* taken over every open column of the board: 0 if none is open, else the
\* max (RED) or min (YELLOW) of the children's values, a child being worth
\* +1 or -1 if the placement makes RED or YELLOW the winner, 0 if nobody
\* has won at depth 1, and the opponent's value at depth - 1 otherwise.
C15_MinimaxOverEveryOpenColumn ==
    outcome.call = "place_chip_recursive"
        => outcome.value[1]
               = MinimaxOverOpenColumns(Self(outcome.board), outcome.player, outcome.depth)

\* place_chip_recursive with its early return removed: every child of the
\* while loop is evaluated, and the children are searched the same way.
RECURSIVE WithoutEarlyReturn(_, _, _, _, _)
WithoutEarlyReturn(game, player, depth, col, values) ==
    IF col < COLUMNS /\ move_available(game, col)
    THEN LET new_board == Hypothetical(game, player, col)
             winner == get_winner(new_board)
             value == IF winner = EMPTY /\ depth > 1
                      THEN WithoutEarlyReturn(new_board, alternate_colour(player),
                                              depth - 1, 0, << >>)
                      ELSE IF winner = EMPTY THEN 0 ELSE player_value(winner)
         IN  WithoutEarlyReturn(game, player, depth, col + 1, Append(values, value))
    ELSE IF Len(values) = 0 THEN 0
    ELSE IF player_value(player) = 1 THEN MaxOf(values)
    ELSE MinOf(values)

\* C16: for every board, mover and depth, place_chip_recursive returns the
\* value that the same procedure returns with the early return removed and
\* all of its children evaluated.
C16_EarlyReturnKeepsValue ==
    outcome.call = "place_chip_recursive"
        => outcome.value[1]
               = WithoutEarlyReturn(Self(outcome.board), outcome.player, outcome.depth,
                                    0, << >>)

\* place_chip_recursive has returned the mover's ideal value from a child
\* that is not the last of the loop: the early return left siblings out.
C16_Witness ==
    /\ outcome.call = "place_chip_recursive"
    /\ outcome.depth = 2
    /\ outcome.value[1] = player_value(outcome.player)
    /\ \E c \in 0..5 :
           /\ \A d \in 0..(c + 1) : move_available(Self(outcome.board), d)
           /\ get_winner(Hypothetical(Self(outcome.board), outcome.player, c))
                  = outcome.player

NeitherFires(self, player) ==
    solveNaive(self, player) = -1 /\ solveNaive(self, Opponent(player)) = -1

\* Three times the exact combined score attacking + prophylactic * 2/3.
ExactScore(attacking_scores, prophylactic_scores, c) ==
    3 * attacking_scores[c + 1] + 2 * prophylactic_scores[c + 1]

ExactBest(self, player, candidates) ==
    LET attacking_scores == solve_scoring(self, player)
        prophylactic_scores == solve_scoring(self, Opponent(player))
    IN  {c \in candidates :
            \A d \in candidates :
                ExactScore(attacking_scores, prophylactic_scores, c)
                    >= ExactScore(attacking_scores, prophylactic_scores, d)}

\* C18: when the minimax stage leaves more than one candidate, the scoring
\* stage keeps exactly the candidates that maximise the exact combined
\* score attacking + prophylactic * 2/3 among the candidates.
C18_ScoringKeepsExactMaximisers ==
    (outcome.call = "solveBoard"
        /\ NeitherFires(Self(outcome.board), outcome.player))
        => \A optimal_moves \in OptimalMoves(Self(outcome.board), outcome.player) :
               Cardinality(optimal_moves) > 1
                   => OptimalMovesFromScores(Self(outcome.board), outcome.player,
                                             optimal_moves)
                          = {ExactBest(Self(outcome.board), outcome.player, optimal_moves)}

\* The columns of a set that are nearest to the centre column 3.
NearestToCentre(columns) ==
    {c \in columns : \A d \in columns : Abs(3 - c) <= Abs(3 - d)}

\* C19: when neither solveNaive stage fires, the scoring-stage set is a
\* non-empty subset of the minimax-optimal set, the centrality-stage set is
\* a non-empty subset of the scoring-stage set made of exactly its members
\* nearest to column 3, and solveBoard returns a member of the
\* centrality-stage set whatever the random choice.
C19_TieBreaksOnlyNarrow ==
    (outcome.call = "solveBoard"
        /\ NeitherFires(Self(outcome.board), outcome.player))
        => \A optimal_moves \in OptimalMoves(Self(outcome.board), outcome.player) :
           \A optimal_moves_from_scores \in
                  OptimalMovesFromScores(Self(outcome.board), outcome.player, optimal_moves) :
               /\ optimal_moves_from_scores # {}
               /\ optimal_moves_from_scores \subseteq optimal_moves
               /\ CentralMoves(optimal_moves_from_scores) # {}
               /\ CentralMoves(optimal_moves_from_scores)
                      = NearestToCentre(optimal_moves_from_scores)
               /\ outcome.raised = "none"
               /\ outcome.value[1] \in CentralMoves(optimal_moves_from_scores)
               /\ outcome.value[1] \in optimal_moves

\* solveBoard has gone through every stage: the scoring stage dropped some
\* of the minimax candidates and the centrality stage some of the rest.
C19_Witness ==
    /\ outcome.call = "solveBoard"
    /\ outcome.raised = "none"
    /\ NeitherFires(Self(outcome.board), outcome.player)
    /\ \E optimal_moves \in OptimalMoves(Self(outcome.board), outcome.player) :
       \E optimal_moves_from_scores \in
              OptimalMovesFromScores(Self(outcome.board), outcome.player, optimal_moves) :
           /\ optimal_moves_from_scores # optimal_moves
           /\ CentralMoves(optimal_moves_from_scores) # optimal_moves_from_scores
           /\ outcome.value[1] \in CentralMoves(optimal_moves_from_scores)

\* The chips of every column are its bottom rows, as many as its height.
Stacked(self) ==
    \A r \in 0..5, c \in 0..6 :
        self.board[r][c] # EMPTY <=> r >= 6 - self.column_chip_count[c]

\* A legal place_chip writes the cell (5 - height, column), Empty until
\* then, changes no other cell of any Board and makes it last_move.
WritesLowestFreeCell ==
    \A b \in BoardIds, player \in Players, column \in Cols :
        (Legal(b, column) /\ PlaceChip(b, player, column))
        => LET row == 5 - boards[b].column_chip_count[column]
           IN  /\ boards[b].board[row][column] = EMPTY
               /\ boards'[b].board = [boards[b].board EXCEPT ![row][column] = player]
               /\ boards'[b].last_move = <<row, column>>
               /\ boards'[b].column_chip_count[column]
                      = boards[b].column_chip_count[column] + 1
               /\ \A other \in DOMAIN boards \ {b} :
                      boards'[other].board = boards[other].board

\* C20: for every sequence of legal placements, place_chip writes the one
\* cell (5 - height[c], c), which was Empty, and changes no other cell; in
\* every reachable state the non-Empty cells of a column are exactly its
\* bottom height[c] rows, and last_move is the cell written most recently.
C20_GravityAndWriteOnce ==
    /\ [](\A b \in DOMAIN boards : Stacked(boards[b]))
    /\ [][WritesLowestFreeCell]_vars

\* A chip has just been dropped onto a column that held chips already, and
\* it lies on top of them.
C20_Witness ==
    /\ outcome.call = "place_chip"
    /\ outcome.raised = "none"
    /\ LET self == boards[outcome.board]
       IN  /\ self.last_move # NoMove
           /\ self.last_move[1] \in 1..3
           /\ self.board[self.last_move[1]][self.last_move[2]] # EMPTY
           /\ self.board[self.last_move[1] + 1][self.last_move[2]] # EMPTY
           /\ self.board[self.last_move[1] - 1][self.last_move[2]] = EMPTY
           /\ self.column_chip_count[self.last_move[2]] = 6 - self.last_move[1]

\* The column a place_chip call of the loop is made with: the one solveBoard
\* has returned, or the one the human has entered.
TargetColumn ==
    IF outcome.call = "solveBoard" THEN outcome.value[1]
    ELSE boards'[PlayedBoard].last_move[2]

SolveBoardOnlyInPlay ==
    outcome'.call = "solveBoard" /\ outcome.call # "solveBoard"
        => still_playing(Self(PlayedBoard))

PlacesInOpenColumn ==
    outcome'.call = "place_chip" /\ calls' = calls + 1
        => /\ TargetColumn \in 0..6
           /\ move_available(Self(PlayedBoard), TargetColumn)
           /\ boards[PlayedBoard].column_chip_count[TargetColumn] < 6
           /\ outcome'.raised = "none"

NoChipOnceOver ==
    ~still_playing(Self(PlayedBoard)) => boards' = boards

Full(self) == \A row \in Rows, col \in Cols : self.board[row][col] # EMPTY

PlayEnded == outcome.call = "play"

EndsWonOrFull ==
    PlayEnded => /\ calls <= 42
                 /\ \/ get_winner(Self(PlayedBoard)) # EMPTY
                    \/ Full(Self(PlayedBoard))

\* C21: in play(), solveBoard is called only on a board for which
\* still_playing() is true; every place_chip call of the loop is made with a
\* column in 0..6 that is open, and does not raise; no chip is placed once
\* still_playing() is false; and if the human gets past every turn by
\* entering a valid column, the loop ends, after at most 42 placements, with
\* a winner or a full board.
C21_PlayLoop ==
    /\ [][SolveBoardOnlyInPlay]_vars
    /\ [][PlacesInOpenColumn]_vars
    /\ [][NoChipOnceOver]_vars
    /\ [](EndsWonOrFull)
    /\ ((HumanTurn ~> ~HumanTurn) => <>PlayEnded)

\* What a caller can read from a Board.
Observed(self) ==
    [board |-> self.board,
     column_chip_count |-> [col \in Cols |-> self.column_chip_count[col]],
     available_moves |-> [col \in Cols |-> move_available(self, col)],
     moves_made |-> get_moves_made(self),
     last_move |-> self.last_move,
     winner |-> get_winner(self),
     still_playing |-> still_playing(self)]

\* dst = copy.deepcopy(src) has just been made: dst reads as src does.
CopyEqualsOriginal ==
    \A src \in BoardIds, dst \in BoardIds :
        /\ outcome'.call = "deepcopy"
        /\ calls' = calls + 1
        /\ outcome'.board = dst
        /\ src \in DOMAIN boards
        /\ src # dst
        => Observed(Self(dst))' = Observed(Self(src))

\* The placement that follows a copy, on the copy or on the original,
\* leaves the other of the two as it was.
PlacementAfterCopyIsLocal ==
    \A b \in BoardIds, other \in BoardIds :
        /\ outcome.call = "deepcopy"
        /\ outcome'.call = "place_chip"
        /\ outcome'.board = b
        /\ other \in DOMAIN boards
        /\ other # b
        => Observed(Self(other))' = Observed(Self(other))

\* C22: a Board made by deep copy reads, at the moment of copying, as its
\* original does: the same grid, column heights, availability flags,
\* moves_made and last_move, and the same get_winner() and still_playing(),
\* also when a player has already won on the original; and a later
\* placement on either of the two does not affect the other.
C22_CopyEqualsOriginal ==
    /\ [][CopyEqualsOriginal]_vars
    /\ [][PlacementAfterCopyIsLocal]_vars

====
